---------------------------- MODULE Spec2Model ----------------------------
(***************************************************************************)
(* Model of src/main.py: the Fourier epicycle simulation (FourierSeries,   *)
(* WaveTracer, Simulation) driven by the event loop of main().             *)
(*                                                                         *)
(* Numbers.  The program computes in floating point; the model computes in *)
(* integers with these units:                                              *)
(*   - time, time_step: units of 25 s; time_speed: a whole number;         *)
(*   - rotation_speed: hundredths (0.05 is 5, the default 0.22 is 22);     *)
(*   - an angle: quarter turns.  time * rotation_speed * 2 * pi radians    *)
(*     with the units above is exactly (time * rotation_speed) quarter     *)
(*     turns, where cos and sin take the exact values 1, 0, -1;            *)
(*   - radius and the chain coordinates: thousandths (float(c) of a        *)
(*     pixel coordinate c is 1000 * c);                                    *)
(*   - the x of a trace point, wave_origin_x, wave_speed and the window    *)
(*     width: whole pixels.                                                *)
(***************************************************************************)
EXTENDS Integers, Sequences, FiniteSets, TLC

VARIABLES
    config,          \* self.config: the parsed configuration (never written)
    time,            \* self.time
    paused,          \* self.paused
    num_terms,       \* self.num_terms
    rotation_speed,  \* self.rotation_speed
    series_type,     \* self.fourier.series_type
    points,          \* self.wave.points: sequence of <<x, y>>, newest first
    epicycles,       \* self.epicycles: sequence of <<x0, y0, x, y, r>>
    end_point,       \* self.end_point
    event,           \* the handler main() ran last
    last_term        \* what get_term returned when last called on the series
                     \* directly (<< >> before that); _update_epicycles uses
                     \* up its terms within one step

vars == <<config, time, paused, num_terms, rotation_speed, series_type,
          points, epicycles, end_point, event, last_term>>

-----------------------------------------------------------------------------
(* Bounds of the model *)

MaxTermsCfg == 2
MaxDelta == 4
MaxTime == 4
MaxRotationSpeed == 12
MaxWidth == 3
MaxTermIndex == 40

Max(a, b) == IF a >= b THEN a ELSE b
Min(a, b) == IF a <= b THEN a ELSE b
Abs(a) == IF a >= 0 THEN a ELSE -a

-----------------------------------------------------------------------------
(* Configuration: the values main() hands to Simulation(config) *)

\* A configuration with the fields of DEFAULT_CONFIG that Simulation reads
\* (colors, fps and the window height only reach the drawing code), in the
\* model's units and at the model's scale: one term out of MaxTermsCfg, a
\* trace MaxWidth pixels wide that scrolls one pixel a frame.
BaseConfig ==
    [ width          |-> 1 + MaxWidth,
      time_speed     |-> 1,
      time_step      |-> 1,
      epicycle_center |-> <<3, 6>>,
      wave_origin_x  |-> 1,
      initial_terms  |-> 1,
      max_terms      |-> MaxTermsCfg,
      function       |-> "square",
      scale          |-> 1,
      wave_speed     |-> 1,
      rotation_speed |-> 7 ]

\* config.json is read as it is (json.load): nothing validates it.  Each
\* family varies one group of settings of BaseConfig and includes
\* values outside the documented ranges.
TermConfigs ==
    { [BaseConfig EXCEPT !.initial_terms = i, !.max_terms = m, !.function = f] :
        i \in (-1)..(MaxTermsCfg + 1), m \in 0..MaxTermsCfg, f \in {"square", "sawtooth"} }

TimeConfigs ==
    { [BaseConfig EXCEPT !.time_step = s, !.time_speed = k] :
        s \in 0..2, k \in 1..2 }

WaveConfigs ==
    { [BaseConfig EXCEPT !.wave_speed = s, !.width = w] :
        s \in 1..2, w \in 0..(1 + MaxWidth) }

\* A trace that stands still or scrolls to the left: nothing asks
\* wave_speed to be positive.
ReverseWaveConfigs ==
    { [BaseConfig EXCEPT !.wave_speed = s] : s \in {-1, 0} }

RotationConfigs ==
    { [BaseConfig EXCEPT !.rotation_speed = r, !.scale = c] :
        r \in {2, 5, 7}, c \in {-1, 0, 1} }

load_or_create_config ==
    TermConfigs \cup TimeConfigs \cup WaveConfigs \cup ReverseWaveConfigs \cup RotationConfigs

-----------------------------------------------------------------------------
(* FourierSeries *)

PI_MILLI == 3142

\* toggle() without its else branch
toggle_one_way(s) == "sawtooth"

toggle(s) == IF s = "square" THEN "sawtooth" ELSE "square"

\* get_term with the sawtooth's alternating sign left out
get_term_same_direction(s, term_index) ==
    IF s = "square"
    THEN LET n == 2 * term_index + 1
         IN  <<(4000 * 1000) \div (PI_MILLI * n), n, 1>>
    ELSE LET n == term_index + 1
         IN  <<(2000 * 1000) \div (PI_MILLI * n), n, 1>>

\* <<radius, freq, direction>>, radius in thousandths
get_term(s, term_index) ==
    IF s = "square"
    THEN LET n == 2 * term_index + 1
         IN  <<(4000 * 1000) \div (PI_MILLI * n), n, 1>>
    ELSE LET n == term_index + 1
         IN  <<(2000 * 1000) \div (PI_MILLI * n), n, IF n % 2 # 0 THEN 1 ELSE -1>>

-----------------------------------------------------------------------------
(* WaveTracer *)

wave_reset(pts) == << >>

\* add() appending the new point instead of inserting it at the front
wave_add_at_back(pts, origin_x, y) == pts \o <<<<origin_x, y>>>>

wave_add(pts, origin_x, y) == <<<<origin_x, y>>>> \o pts

\* The filter building its list back to front
RECURSIVE keep_inside_reversed(_, _)
keep_inside_reversed(pts, max_width) ==
    IF pts = << >> THEN << >>
    ELSE IF Head(pts)[1] < max_width
         THEN keep_inside_reversed(Tail(pts), max_width) \o <<Head(pts)>>
         ELSE keep_inside_reversed(Tail(pts), max_width)

RECURSIVE keep_inside(_, _)
keep_inside(pts, max_width) ==
    IF pts = << >> THEN << >>
    ELSE IF Head(pts)[1] < max_width
         THEN <<Head(pts)>> \o keep_inside(Tail(pts), max_width)
         ELSE keep_inside(Tail(pts), max_width)

\* update() filtering before it moves the points
wave_update_filter_first(pts, speed, max_width) ==
    LET kept == keep_inside(pts, max_width)
    IN  [k \in 1..Len(kept) |-> <<kept[k][1] + speed, kept[k][2]>>]

\* update() keeping the points that sit on the right edge (<= for <)
wave_update_inclusive(pts, speed, max_width) ==
    keep_inside([k \in 1..Len(pts) |-> <<pts[k][1] + speed, pts[k][2]>>], max_width + 1)

wave_update(pts, speed, max_width) ==
    keep_inside([k \in 1..Len(pts) |-> <<pts[k][1] + speed, pts[k][2]>>], max_width)

-----------------------------------------------------------------------------
(* Simulation *)

COS(a) == CASE a % 4 = 0 -> 1 [] a % 4 = 1 -> 0 [] a % 4 = 2 -> -1 [] OTHER -> 0
SIN(a) == CASE a % 4 = 0 -> 0 [] a % 4 = 1 -> 1 [] a % 4 = 2 -> 0 [] OTHER -> -1

to_float(c) == 1000 * c

\* One pass of the loop body of _update_epicycles for term i, from (x, y).
epicycle(s, i, t, rot, scale, x, y) ==
    LET term      == get_term(s, i)
        radius    == term[1]
        freq      == term[2]
        direction == term[3]
        angle     == direction * freq * t * rot
    IN  <<x, y,
          x + scale * radius * COS(angle),
          y + scale * radius * SIN(angle),
          Abs(scale * radius)>>

\* The list the loop of _update_epicycles builds for range(n), from (x, y).
\* The loop without the cursor moving on: every segment starts where the
\* first one does.
RECURSIVE epicycle_loop_fixed_cursor(_, _, _, _, _, _, _, _)
epicycle_loop_fixed_cursor(s, i, n, t, rot, scale, x, y) ==
    IF i >= n THEN << >>
    ELSE <<epicycle(s, i, t, rot, scale, x, y)>>
         \o epicycle_loop_fixed_cursor(s, i + 1, n, t, rot, scale, x, y)

RECURSIVE epicycle_loop(_, _, _, _, _, _, _, _)
epicycle_loop(s, i, n, t, rot, scale, x, y) ==
    IF i >= n THEN << >>
    ELSE LET e == epicycle(s, i, t, rot, scale, x, y)
         IN  <<e>> \o epicycle_loop(s, i + 1, n, t, rot, scale, e[3], e[4])

\* _update_epicycles with its loop starting at term 1
update_epicycles_from_1(s, n, t, rot, scale, center) ==
    epicycle_loop(s, 1, n, t, rot, scale, to_float(center[1]), to_float(center[2]))

\* _update_epicycles without line 193: the new segments are appended to
\* the chain of the frame before
update_epicycles_appending(s, n, t, rot, scale, center) ==
    epicycles \o epicycle_loop(s, 0, n, t, rot, scale, to_float(center[1]), to_float(center[2]))

update_epicycles(s, n, t, rot, scale, center) ==
    epicycle_loop(s, 0, n, t, rot, scale, to_float(center[1]), to_float(center[2]))

\* (x, y) when the loop ends: the end of the last segment, or the centre.
chain_end(chain, center) ==
    IF chain = << >> THEN <<to_float(center[1]), to_float(center[2])>>
    ELSE <<chain[Len(chain)][3], chain[Len(chain)][4]>>

\* change_terms clamping from below only
clamp_terms_below(n, d, max_terms) == Max(1, n + d)

clamp_terms(n, d, max_terms) == Max(1, Min(n + d, max_terms))

\* the time step without the speed factor
advance_time_unscaled(t, time_step, time_speed) == t + time_step

advance_time(t, time_step, time_speed) == t + time_step * time_speed

ROT_FLOOR == 5
ROT_STEP == 5

\* the [ key without the floor
decrease_rotation_unclamped(r) == r - ROT_STEP

decrease_rotation(r) == Max(ROT_FLOOR, r - ROT_STEP)
increase_rotation(r) == r + ROT_STEP

Init ==
    /\ config \in load_or_create_config
    /\ time = 0
    /\ paused = FALSE
    /\ num_terms = config.initial_terms
    /\ rotation_speed = config.rotation_speed
    /\ series_type = config.function
    /\ points = << >>
    /\ epicycles = << >>
    /\ end_point = <<0, 0>>
    /\ event = "init"
    /\ last_term = << >>

\* change_terms that rebuilds the chain for the new count at once
change_terms_rebuilding(d) ==
    /\ num_terms' = clamp_terms(num_terms, d, config.max_terms)
    /\ epicycles' = update_epicycles(series_type, num_terms', time, rotation_speed,
                                     config.scale, config.epicycle_center)
    /\ event' = "change_terms"
    /\ UNCHANGED <<config, last_term, time, paused, rotation_speed, series_type, points,
                   end_point>>

change_terms(d) ==
    /\ num_terms' = clamp_terms(num_terms, d, config.max_terms)
    /\ event' = "change_terms"
    /\ UNCHANGED <<config, last_term, time, paused, rotation_speed, series_type, points,
                   epicycles, end_point>>

\* toggle_pause that can pause and never resumes
toggle_pause_one_way ==
    /\ paused' = TRUE
    /\ event' = "toggle_pause"
    /\ UNCHANGED <<config, last_term, time, num_terms, rotation_speed, series_type, points,
                   epicycles, end_point>>

toggle_pause ==
    /\ paused' = ~paused
    /\ event' = "toggle_pause"
    /\ UNCHANGED <<config, last_term, time, num_terms, rotation_speed, series_type, points,
                   epicycles, end_point>>

\* toggle_function that also drops the chain drawn for the old waveform
toggle_function_clearing_chain ==
    /\ series_type' = toggle(series_type)
    /\ points' = wave_reset(points)
    /\ time' = 0
    /\ epicycles' = << >>
    /\ event' = "toggle_function"
    /\ UNCHANGED <<config, last_term, paused, num_terms, rotation_speed, end_point>>

toggle_function ==
    /\ series_type' = toggle(series_type)
    /\ points' = wave_reset(points)
    /\ time' = 0
    /\ event' = "toggle_function"
    /\ UNCHANGED <<config, last_term, paused, num_terms, rotation_speed, epicycles, end_point>>

\* reset() that also restores the configured rotation speed
reset_everything ==
    /\ points' = wave_reset(points)
    /\ time' = 0
    /\ rotation_speed' = config.rotation_speed
    /\ event' = "reset"
    /\ UNCHANGED <<config, last_term, paused, num_terms, series_type, epicycles, end_point>>

reset ==
    /\ points' = wave_reset(points)
    /\ time' = 0
    /\ event' = "reset"
    /\ UNCHANGED <<config, last_term, paused, num_terms, rotation_speed, series_type,
                   epicycles, end_point>>

\* The step with the trace advanced before the new point is added
step_advance_first ==
    LET t     == advance_time(time, config.time_step, config.time_speed)
        chain == update_epicycles(series_type, num_terms, t, rotation_speed,
                                  config.scale, config.epicycle_center)
        tip   == chain_end(chain, config.epicycle_center)
    IN  /\ Abs(t) <= MaxTime
        /\ time' = t
        /\ epicycles' = chain
        /\ end_point' = tip
        /\ points' = wave_add(wave_update(points, config.wave_speed, config.width),
                              config.wave_origin_x, tip[2])
        /\ UNCHANGED <<config, last_term, paused, num_terms, rotation_speed, series_type>>

\* One unpaused simulation step: lines 186-189.
step ==
    LET t     == advance_time(time, config.time_step, config.time_speed)
        chain == update_epicycles(series_type, num_terms, t, rotation_speed,
                                  config.scale, config.epicycle_center)
        tip   == chain_end(chain, config.epicycle_center)
    IN  /\ Abs(t) <= MaxTime
        /\ time' = t
        /\ epicycles' = chain
        /\ end_point' = tip
        /\ points' = wave_update(wave_add(points, config.wave_origin_x, tip[2]),
                                 config.wave_speed, config.width)
        /\ UNCHANGED <<config, last_term, paused, num_terms, rotation_speed, series_type>>

\* update() without the early return of lines 182-183
update_ignoring_pause ==
    /\ event' = "update"
    /\ step

update ==
    /\ event' = "update"
    /\ IF paused
       THEN UNCHANGED <<config, last_term, time, paused, num_terms, rotation_speed,
                        series_type, points, epicycles, end_point>>
       ELSE step

left_bracket ==
    /\ rotation_speed' = decrease_rotation(rotation_speed)
    /\ event' = "left_bracket"
    /\ UNCHANGED <<config, last_term, time, paused, num_terms, series_type, points,
                   epicycles, end_point>>

right_bracket ==
    /\ increase_rotation(rotation_speed) <= MaxRotationSpeed
    /\ rotation_speed' = increase_rotation(rotation_speed)
    /\ event' = "right_bracket"
    /\ UNCHANGED <<config, last_term, time, paused, num_terms, series_type, points,
                   epicycles, end_point>>

Next ==
    \/ \E d \in (-MaxDelta)..MaxDelta : change_terms(d)
    \/ toggle_pause
    \/ toggle_function
    \/ reset
    \/ left_bracket
    \/ right_bracket
    \/ update

Spec == Init /\ [][Next]_vars

-----------------------------------------------------------------------------
(* A FourierSeries on its own: toggle() and get_term(term_index) called in
   any order, for indexes up to MaxTermIndex, on the series of a simulation
   that stays as constructed. *)

InitSeries ==
    /\ Init
    /\ config \in {[BaseConfig EXCEPT !.function = f] : f \in {"square", "sawtooth"}}

series_toggle ==
    /\ series_type' = toggle(series_type)
    /\ UNCHANGED <<config, last_term, time, paused, num_terms, rotation_speed, points,
                   epicycles, end_point, event>>

series_get_term(term_index) ==
    /\ last_term' = [series_type |-> series_type,
                     term_index  |-> term_index,
                     radius      |-> get_term(series_type, term_index)[1],
                     freq        |-> get_term(series_type, term_index)[2],
                     direction   |-> get_term(series_type, term_index)[3]]
    /\ UNCHANGED <<config, time, paused, num_terms, rotation_speed, series_type,
                   points, epicycles, end_point, event>>

NextSeries ==
    \/ series_toggle
    \/ \E term_index \in 0..MaxTermIndex : series_get_term(term_index)

SpecSeries == InitSeries /\ [][NextSeries]_vars

-----------------------------------------------------------------------------
(* Claims *)

InRange == num_terms \in 1..config.max_terms

\* C1: for max_terms >= 1 and a configured initial term count in
\* [1, max_terms], num_terms is in [1, max_terms] in every state, whatever
\* change_terms(d) calls (d of either sign, 0, or larger than max_terms) and
\* other commands have run.
C1_TermCountInRange ==
    (config.max_terms >= 1 /\ config.initial_terms \in 1..config.max_terms) => InRange

\* a change_terms call has left num_terms at the upper end of a range of
\* two or more, from a start at the lower end
C1_Witness ==
    /\ event = "change_terms"
    /\ config.initial_terms = 1
    /\ config.max_terms >= 2
    /\ num_terms = config.max_terms

\* C2 as claimed: once a chain has been computed (so an update has run), its
\* length equals num_terms in every later state, whatever commands followed.
C2_Original == epicycles # << >> => Len(epicycles) = num_terms

\* C2 as amended: right after an unpaused update() that found num_terms >= 0
\* the chain has num_terms segments.
C2_ChainLengthAfterUpdate ==
    (event = "update" /\ ~paused /\ num_terms >= 0) => Len(epicycles) = num_terms

C2_Witness ==
    /\ event = "update"
    /\ ~paused
    /\ num_terms = 2
    /\ Len(epicycles) = 2

\* C3: an update() while paused leaves time, the chain, the tip and the
\* trace (points, their x and their order) as they were.
C3_PausedUpdateIsNoOp ==
    [][(event' = "update" /\ paused) =>
            UNCHANGED <<time, epicycles, end_point, points>>]_vars

\* an update() ran while paused, with a trace and a chain to freeze
C3_Witness ==
    /\ event = "update"
    /\ paused
    /\ time > 0
    /\ Len(points) >= 2
    /\ epicycles # << >>

\* C4: toggle_function() turns square into sawtooth and sawtooth into
\* square, and leaves the trace empty and time = 0.
C4_ToggleFunction ==
    [][event' = "toggle_function" =>
            /\ series_type = "square" => series_type' = "sawtooth"
            /\ series_type = "sawtooth" => series_type' = "square"
            /\ points' = << >>
            /\ time' = 0]_vars

\* toggled while paused, after updates had run, back to the square wave
C4_Witness ==
    /\ event = "toggle_function"
    /\ paused
    /\ epicycles # << >>
    /\ series_type = "square"
    /\ config.function = "square"
    /\ points = << >>
    /\ time = 0

\* C5: reset() leaves the trace empty and time = 0 and does not change the
\* waveform kind, num_terms or rotation_speed.
C5_Reset ==
    [][event' = "reset" =>
            /\ points' = << >>
            /\ time' = 0
            /\ UNCHANGED <<series_type, num_terms, rotation_speed>>]_vars

\* reset ran with every setting moved away from its configured value
C5_Witness ==
    /\ event = "reset"
    /\ epicycles # << >>
    /\ series_type # config.function
    /\ num_terms # config.initial_terms
    /\ rotation_speed # config.rotation_speed
    /\ points = << >>
    /\ time = 0

\* The trace's width: from where add() puts a point to the right edge.
trace_width == config.width - config.wave_origin_x

\* The least whole number >= a / b, for b > 0.
CeilDiv(a, b) == -((-a) \div b)

\* ceil(trace_width / wave_speed)
CeilWidth == CeilDiv(trace_width, config.wave_speed)

\* The number of advances k >= 1 with k * wave_speed < trace_width.
StableCount == Max(0, CeilWidth - 1)

UnpausedUpdate == event' = "update" /\ ~paused

\* C6 as claimed: for wave_speed > 0 the number of points never exceeds
\* ceil(trace_width / wave_speed); unpaused updates raise the count until
\* it equals that bound, and then it stays there.
C6_Original ==
    [][(UnpausedUpdate /\ config.wave_speed > 0) =>
            /\ Len(points') <= CeilWidth
            /\ Len(points) < CeilWidth => Len(points') > Len(points)
            /\ Len(points) = CeilWidth => Len(points') = CeilWidth]_vars

\* C6 as amended: for wave_speed > 0 the number of points never exceeds
\* max(0, ceil(trace_width / wave_speed) - 1); each unpaused update raises
\* the count by one until it equals that bound, and then it stays there.
C6_TraceBounded ==
    /\ [](config.wave_speed > 0 => Len(points) <= StableCount)
    /\ [][(UnpausedUpdate /\ config.wave_speed > 0) =>
                Len(points') = Min(Len(points) + 1, StableCount)]_vars

\* the count stood at a bound of two or more through an unpaused update
\* (time_step * time_speed = 1: time counts the updates since the trace
\* was last cleared)
C6_Witness ==
    /\ event = "update"
    /\ ~paused
    /\ config.time_step * config.time_speed = 1
    /\ config.wave_speed > 0
    /\ StableCount >= 2
    /\ Len(points) = StableCount
    /\ time > StableCount + 1

\* C7: the point at place k of the trace has been advanced k times and is
\* k * wave_speed from wave_origin_x; an advance keeps a point, one place
\* further back, if its new offset is < trace_width, and removes it (and
\* all older ones) if its new offset is >= trace_width.
C7_EvictedAtMaxOffset ==
    /\ [](\A k \in 1..Len(points) :
            /\ points[k][1] - config.wave_origin_x = k * config.wave_speed
            /\ points[k][1] - config.wave_origin_x < trace_width)
    /\ [][UnpausedUpdate =>
            \A k \in 1..Len(points) :
                IF (points[k][1] + config.wave_speed) - config.wave_origin_x < trace_width
                THEN /\ Len(points') >= k + 1
                     /\ points'[k + 1] = <<points[k][1] + config.wave_speed, points[k][2]>>
                ELSE Len(points') <= k]_vars

\* an unpaused update has just removed a point: with one update per unit
\* of time, more updates have run since the trace was cleared than points
\* are left, and the oldest one left is one advance from the edge
C7_Witness ==
    /\ event = "update"
    /\ ~paused
    /\ config.time_step * config.time_speed = 1
    /\ config.wave_speed = 2
    /\ Len(points) >= 1
    /\ time > Len(points)
    /\ points[Len(points)][1] + config.wave_speed >= config.width

\* C8: from a configured rotation_speed at or above the floor, every
\* sequence of [ and ] keys leaves rotation_speed at or above the floor,
\* which is positive; a [ that would go below the floor leaves it at the
\* floor.
C8_RotationFloor ==
    /\ ROT_FLOOR > 0
    /\ [](config.rotation_speed >= ROT_FLOOR => rotation_speed >= ROT_FLOOR)
    /\ [][(event' = "left_bracket" /\ rotation_speed - ROT_STEP < ROT_FLOOR) =>
                rotation_speed' = ROT_FLOOR]_vars

\* the [ key has clamped: 7 hundredths is above the floor and not a whole
\* number of steps above it, so only a clamped decrease reaches the floor
C8_Witness ==
    /\ event = "left_bracket"
    /\ config.rotation_speed = 7
    /\ rotation_speed = ROT_FLOOR

anchor == <<to_float(config.epicycle_center[1]), to_float(config.epicycle_center[2])>>

\* C9: right after an unpaused update() with num_terms >= 1 the chain has
\* num_terms segments, the first starts at the anchor, each segment ends
\* where the next starts, and end_point is the end of the last segment.
C9_ChainShape ==
    (event = "update" /\ ~paused /\ num_terms >= 1) =>
        /\ Len(epicycles) = num_terms
        /\ <<epicycles[1][1], epicycles[1][2]>> = anchor
        /\ \A i \in 1..(Len(epicycles) - 1) :
              <<epicycles[i][3], epicycles[i][4]>> = <<epicycles[i + 1][1], epicycles[i + 1][2]>>
        /\ end_point = <<epicycles[Len(epicycles)][3], epicycles[Len(epicycles)][4]>>

\* a chain of two segments, num_terms in range, the second segment
\* starting away from the anchor and the tip away from both
C9_Witness ==
    /\ event = "update"
    /\ ~paused
    /\ InRange
    /\ num_terms = 2
    /\ Len(epicycles) = num_terms
    /\ end_point # anchor
    /\ <<epicycles[2][1], epicycles[2][2]>> # anchor
    /\ end_point # <<epicycles[2][1], epicycles[2][2]>>

\* C10: with time_step * time_speed > 0, an unpaused update() raises time
\* by exactly time_step * time_speed, to a strictly larger value, and
\* nothing but reset() and toggle_function() changes time otherwise.
C10_TimeStrictlyIncreases ==
    [][(config.time_step * config.time_speed > 0
            /\ event' \notin {"reset", "toggle_function"}) =>
          IF UnpausedUpdate
          THEN /\ time' = time + config.time_step * config.time_speed
               /\ time' > time
          ELSE time' = time]_vars

\* the second of two unpaused updates at time_step 1, time_speed 2
C10_Witness ==
    /\ event = "update"
    /\ ~paused
    /\ config.time_step = 1
    /\ config.time_speed = 2
    /\ time = 4

\* What section 7 of the specification asks the constructor to insist on.
ConfigValid ==
    /\ config.max_terms >= 1
    /\ config.time_step > 0
    /\ config.scale > 0

\* C11 as claimed: a Simulation exists, and runs a frame, only for a
\* configuration with max_terms >= 1, time_step > 0 and scale > 0; any
\* other configuration fails in the constructor.
C11_Original == event = "update" => ConfigValid

\* C13: change_terms(d) leaves time, the trace, the chain and the tip
\* unchanged, paused or not; the chain keeps the length it had.
C13_ChangeTermsFrame ==
    [][event' = "change_terms" =>
            UNCHANGED <<time, points, epicycles, end_point>>]_vars

\* change_terms ran after an update: the chain still has the old length,
\* and time and the trace are those the update left
C13_Witness ==
    /\ event = "change_terms"
    /\ epicycles # << >>
    /\ Len(epicycles) # num_terms
    /\ InRange
    /\ time > 0
    /\ points # << >>

\* C14 as claimed: right after construction, before any command, num_terms
\* is in [1, max_terms], for every configuration the constructor accepts
\* (here: even among those section 7 of the specification lets through).
C14_Original == (event = "init" /\ ConfigValid) => InRange

\* C12: get_term on the square series returns frequency 2 * index + 1, an
\* odd number, and direction +1; on the sawtooth series it returns
\* frequency index + 1 and direction +1 when index + 1 is odd, -1 when it
\* is even.
C12_TermFrequencyAndDirection ==
    last_term # << >> =>
        IF last_term.series_type = "square"
        THEN /\ last_term.freq = 2 * last_term.term_index + 1
             /\ last_term.freq % 2 = 1
             /\ last_term.direction = 1
        ELSE /\ last_term.freq = last_term.term_index + 1
             /\ (last_term.freq % 2 = 1) => last_term.direction = 1
             /\ (last_term.freq % 2 = 0) => last_term.direction = -1

\* get_term returned an even sawtooth harmonic, past the first few
C12_Witness ==
    /\ last_term # << >>
    /\ last_term.series_type = "sawtooth"
    /\ last_term.term_index >= 5
    /\ last_term.freq % 2 = 0
    /\ last_term.direction = -1

\* C15: an unpaused update() advances time, then rebuilds the chain and
\* the tip at the new time, then adds the tip's y to the trace, then
\* advances the trace: the tip is the one of the chain for the new time,
\* and with wave_speed < trace_width the trace is not empty and its first
\* point holds the tip's y, one advance away from wave_origin_x.
C15_UpdateOrder ==
    /\ []((event = "update" /\ ~paused /\ config.wave_speed < trace_width) =>
            /\ points # << >>
            /\ points[1] = <<config.wave_origin_x + config.wave_speed, end_point[2]>>)
    /\ [][UnpausedUpdate =>
            /\ time' = time + config.time_step * config.time_speed
            /\ end_point' = chain_end(
                   update_epicycles(series_type, num_terms, time', rotation_speed,
                                    config.scale, config.epicycle_center),
                   config.epicycle_center)]_vars

\* two unpaused updates whose tips differ in y: the trace's first point
\* holds the later one
C15_Witness ==
    /\ event = "update"
    /\ ~paused
    /\ config.wave_speed < trace_width
    /\ Len(points) >= 2
    /\ points[1][2] = end_point[2]
    /\ points[2][2] # points[1][2]

\* The trace of an unpaused update once the new point is in and every
\* point has moved, before any is removed.
Advanced ==
    [k \in 1..(Len(points) + 1) |->
        IF k = 1 THEN <<config.wave_origin_x + config.wave_speed, end_point'[2]>>
        ELSE <<points[k - 1][1] + config.wave_speed, points[k - 1][2]>>]

\* The places of Advanced that are left of the right edge.
Surviving == {k \in DOMAIN Advanced : Advanced[k][1] < config.width}

\* C16: the advance of an unpaused update moves every point by wave_speed
\* and then removes exactly the points at or beyond the right edge: every
\* point left is inside, every moved point that is inside is left, and
\* the points left are in the order they had.
C16_AdvanceFilters ==
    [][UnpausedUpdate =>
            /\ \A j \in 1..Len(points') : points'[j][1] < config.width
            /\ Len(points') = Cardinality(Surviving)
            /\ \A k \in Surviving :
                  points'[Cardinality({m \in Surviving : m <= k})] = Advanced[k]]_vars

\* an unpaused update has removed a point and kept two: more updates have
\* run since the trace was cleared than points are left
C16_Witness ==
    /\ event = "update"
    /\ ~paused
    /\ config.time_step * config.time_speed = 1
    /\ config.wave_speed = 1
    /\ Len(points) = 2
    /\ time > 2
    /\ points[1][2] # points[2][2]

\* Each point behind the front of the new trace is the point one place
\* further forward in the old one, moved by wave_speed.
ShiftedBack ==
    \A k \in 2..Len(points') :
        /\ k - 1 <= Len(points)
        /\ points'[k] = <<points[k - 1][1] + config.wave_speed, points[k - 1][2]>>

\* C17 as claimed: in every state, of two points the one nearer the front
\* is no further from wave_origin_x than the other, and no step moves a
\* point that stays towards wave_origin_x or towards the front.
C17_Original ==
    /\ [](\A i, j \in 1..Len(points) : i < j => points[i][1] <= points[j][1])
    /\ [][\/ points' = points
          \/ points' = << >>
          \/ ShiftedBack /\ \A k \in 2..Len(points') : points'[k][1] >= points[k - 1][1]]_vars

\* C17 as amended: the same for wave_speed >= 0, and for wave_speed > 0
\* the point nearer the front is strictly nearer wave_origin_x.
C17_NewestFirst ==
    /\ [](config.wave_speed >= 0 =>
            \A i, j \in 1..Len(points) : i < j =>
                /\ points[i][1] <= points[j][1]
                /\ config.wave_speed > 0 => points[i][1] < points[j][1])
    /\ [][config.wave_speed >= 0 =>
            \/ points' = points
            \/ points' = << >>
            \/ ShiftedBack /\ \A k \in 2..Len(points') : points'[k][1] >= points[k - 1][1]]_vars

\* after a third update in a row the trace holds two points, the older at
\* the back and further along
C17_Witness ==
    /\ event = "update"
    /\ ~paused
    /\ config.wave_speed > 0
    /\ config.time_step * config.time_speed = 1
    /\ time >= 3
    /\ Len(points) = 2
    /\ points[1][1] < points[2][1]

\* C18: toggle_pause() flips paused, and no other handler (update,
\* change_terms, toggle_function, reset, the [ and ] keys) changes it.
C18_PausedOnlyByToggle ==
    [][IF event' = "toggle_pause" THEN paused' = ~paused ELSE paused' = paused]_vars

\* the simulation was paused and has been resumed, with a frame drawn
C18_Witness ==
    /\ event = "toggle_pause"
    /\ ~paused
    /\ epicycles # << >>
    /\ time > 0

\* C19: right after an unpaused update() the chain and the tip are those
\* that the series kind, num_terms, time, rotation_speed, scale and the
\* centre give when the chain is built from nothing; no earlier chain and
\* no earlier state enters.
C19_ChainFromScratch ==
    (event = "update" /\ ~paused) =>
        /\ epicycles = epicycle_loop(series_type, 0, num_terms, time, rotation_speed,
                                     config.scale, anchor[1], anchor[2])
        /\ end_point = IF num_terms >= 1
                       THEN <<epicycles[Len(epicycles)][3], epicycles[Len(epicycles)][4]>>
                       ELSE anchor

\* an unpaused update that followed other frames, a change of num_terms, a
\* change of rotation_speed and a change of waveform
C19_Witness ==
    /\ event = "update"
    /\ ~paused
    /\ time >= 2
    /\ num_terms # config.initial_terms
    /\ InRange
    /\ rotation_speed # config.rotation_speed
    /\ series_type # config.function
    /\ end_point # anchor

\* C20: reset() and toggle_function() leave the chain and the tip as the
\* last unpaused update() built them.
C20_ChainKeptByReset ==
    [][event' \in {"reset", "toggle_function"} => UNCHANGED <<epicycles, end_point>>]_vars

\* paused, time = 0 and an empty trace, with the chain of a frame at a
\* later time and of the other waveform still in place
C20_Witness ==
    /\ paused
    /\ event = "toggle_function"
    /\ time = 0
    /\ points = << >>
    /\ epicycles # << >>
    /\ InRange
    /\ epicycles # epicycle_loop(series_type, 0, Len(epicycles), 0, rotation_speed,
                                 config.scale, anchor[1], anchor[2])
    /\ epicycles # epicycle_loop(toggle(series_type), 0, Len(epicycles), 0, rotation_speed,
                                 config.scale, anchor[1], anchor[2])

====
